---- MODULE Spec2Model ----
(***************************************************************************)
(* Sanjou offline-first synchronisation machinery.                         *)
(*                                                                         *)
(*   SpecRelay : the Completion Relay (src/src/sync/completionSync.ts)     *)
(*   SpecSync  : Local Persistence Adapter gate and Remote Reconciler      *)
(*               (src/src/hooks/useSync.ts, src/src/sync/firebaseSync.ts)  *)
(*   SpecSyncLive : SpecSync with progress of the steps that are ready     *)
(*   SpecImporter : the External Task Importer (src/unnamed/part_006)      *)
(*   SpecDoc   : the Document Store and its replicas                       *)
(*               (src/src/sync/yjsProvider.ts and the hooks that call it)  *)
(*   SpecBlockView : the focus-block screen over the Document Store        *)
(*               (src/src/components/views/BlockView.tsx, useTimer)        *)
(*                                                                         *)
(* Every component has its own variables and its own specification; a      *)
(* specification leaves the variables of the other components unchanged.   *)
(***************************************************************************)
EXTENDS Integers, Sequences, FiniteSets, TLC

(***************************************************************************)
(* Bounds of the model.                                                    *)
(***************************************************************************)
MaxTime == 1           \* the millisecond clock runs over 0..MaxTime
MaxRecords == 2        \* recordCompletion() is called at most this often
MaxEvents == 3         \* local mutations, peer writes and auth notifications
MaxLog == 1            \* entries of the durable change log at start
MaxInflight == 1       \* importer refresh() calls suspended at the same time
MaxErrors == 4         \* consecutive importer polls the environment fails
MaxCalls == 3          \* document operations called, over all replicas

(***************************************************************************)
(* Program constants of completionSync.ts.                                 *)
(***************************************************************************)
MAX_RETRIES == 5
BASE_RETRY_DELAY_MS == 1000
MAX_RETRY_DELAY_MS == 30000
JitterMax == 1000


VARIABLES
  \* ---- Completion Relay: module state of completionSync.ts
  pendingQueue,        \* QueuedCompletion[]
  isProcessingQueue,   \* boolean
  retryTimeout,        \* timer handle, 0 for null
  \* ---- Completion Relay: environment
  timers,              \* pending window timers: set of [id, delay]
  runs,                \* processQueue() invocations suspended at an await
  dirExists,           \* the shared directory exists
  fileExists,          \* completions.json exists
  file,                \* content of completions.json: TaskCompletion[]
  now,                 \* the clock at the latest recordCompletion(), in ms
  \* ---- Completion Relay: history
  history,             \* every completion passed to recordCompletion(), by uid
  everInFile,          \* dedup keys that have been in the file at some time
  deliveredUids,       \* uids staged by a run whose write succeeded
  dropped,             \* uids dropped at the retry ceiling
  cleared,             \* uids removed by clearPendingQueue()
  failedRuns,          \* uid -> number of failed runs it was queued for
  \* ---- useSync.ts / yjsProvider.ts: start-up
  storage,             \* IndexedDB: "ok" or "unavailable"
  idbLog,              \* the durable change log: a sequence of updates
  replayed,            \* log entries applied to the document so far
  persistPc,           \* IndexeddbPersistence: none, loading, synced, destroyed
  loadResolved,        \* the promise of initLocalPersistence() has resolved
  initPc,              \* useSync init(): start, awaitLoad, awaitSync, done, aborted
  mounted,             \* useSync effect closure
  dataLoaded,          \* uiStore.dataLoaded
  \* ---- the document (ydoc), as the set of operations it has integrated
  ydoc,                \* [ops, pending]
  updateListeners,     \* ydoc.on('update') listeners: the syncDocRef of each
  \* ---- firebaseSync.ts module state
  unsubscribe,         \* snapshot subscription handle, 0 for null
  syncState,           \* offline, syncing, synced, error
  authListener,        \* the auth-state callback is registered
  \* ---- firebaseSync.ts environment
  firebase,            \* "unconfigured", "initFails" or "ok"
  currentUser,         \* getCurrentUser(): a uid or NoUser
  subs,                \* active snapshot subscriptions: [id, part, dirty]
  remote,              \* partition key -> remote record
  tasks,               \* remote exchanges in flight, in issue order
  \* ---- history
  nLocal,              \* local mutations made
  nPeer,               \* peer writes made
  nAuth,               \* auth notifications delivered
  pushCount,           \* local mutation -> remote writes its delta caused
  echoPushes,          \* remote writes caused by updates that were not local
  lastFailure,         \* the remote exchange that failed in the latest step
  \* ---- External Task Importer: environment
  sharedFile,          \* tasks.json: "missing", "garbage", "notArray" or a list
  cache,               \* localStorage[CACHE_KEY]: "none" or a list
  \* ---- External Task Importer: useSubeteTasks state and refs
  subeteTasks,         \* the tasks state
  loading,
  error,               \* a message or "null"
  syncStatus,          \* synced, syncing, offline, error
  previousTaskCountRef,
  hasInitialLoadRef,
  lastErrorRef,        \* a message or "null"
  consecutiveErrorsRef,
  polls,               \* refresh() calls suspended at an await
  \* ---- External Task Importer: history
  lastPoll,            \* what the refresh() that settled last found and did
  \* ---- Document Store: the replicas of the shared document
  replicas,            \* replica -> [store, pendingItems, pendingDs]
  produced,            \* writer -> the updates its transactions emitted
  applied,             \* replica -> writer -> updates of the writer applied
  generated,           \* ids generateId() has returned
  \* ---- Document Store: history
  calls,               \* document operations called
  lastOp,              \* the latest updateBlock/updateBreak and its events
  \* ---- Block screen: useTimer state of BlockView and the UI store
  timer,               \* useTimer: [state]
  timerState,          \* uiStore copy of timer.state
  currentBlockId,      \* uiStore, 0 for null
  currentMeta,         \* uiStore: checklist key -> boolean
  isOnBreak,           \* uiStore
  currentBreakId,      \* uiStore, 0 for null
  \* ---- Block screen: environment
  peerBlockId          \* the current block of the screen of another device

relayVars == <<pendingQueue, isProcessingQueue, retryTimeout, timers, runs,
               dirExists, fileExists, file, now, history, everInFile,
               deliveredUids, dropped, cleared, failedRuns>>

syncVars == <<storage, idbLog, replayed, persistPc, loadResolved, initPc,
              mounted, dataLoaded, ydoc, updateListeners, unsubscribe,
              syncState, authListener, firebase, currentUser, subs, remote,
              tasks, nLocal, nPeer, nAuth, pushCount, echoPushes,
              lastFailure>>

importerVars == <<sharedFile, cache, subeteTasks, loading, error, syncStatus,
                  previousTaskCountRef, hasInitialLoadRef, lastErrorRef,
                  consecutiveErrorsRef, polls, lastPoll>>

docVars == <<replicas, produced, applied, generated, calls, lastOp>>

viewVars == <<timer, timerState, currentBlockId, currentMeta, isOnBreak,
              currentBreakId, peerBlockId>>

vars == <<relayVars, syncVars, importerVars, docVars, viewVars>>


RECURSIVE Pow2(_)
Pow2(n) == IF n = 0 THEN 1 ELSE 2 * Pow2(n - 1)

(***************************************************************************)
(* Completion Relay                                                        *)
(***************************************************************************)

\* The dedup key `${taskId}-${completedAt}`.  completedAt is a fixed-length
\* ISO-8601 string, so the concatenation is injective: a pair.
KeyOf(c) == <<c.taskId, c.completedAt>>

\* The TaskCompletion written to the file for a queued item (the uid of the
\* model is a history tag of the object, not a field of the program).
TaskCompletion(q) ==
  [taskId |-> q.taskId, completedAt |-> q.completedAt, duration |-> q.duration]

\* readExistingCompletions(): [] when the file is missing, and [] when the
\* read fails as well (the catch returns []).
readExistingCompletions(readOk) ==
  IF fileExists /\ readOk THEN file ELSE <<>>

\* The staging loop of processQueue: the queued items whose key is not among
\* the keys of `existing`.  existingKeys is not extended while staging.
StageQueued(queue, existingCompletions) ==
  LET existingKeys == {KeyOf(existingCompletions[i]) :
                         i \in 1..Len(existingCompletions)}
  IN  SelectSeq(queue, LAMBDA q : KeyOf(q) \notin existingKeys)

\* The catch block keeps an item while retryCount < MAX_RETRIES.
MutKeepOnFailure(item) == item.retryCount <= MAX_RETRIES
KeepOnFailure(item) == item.retryCount < MAX_RETRIES

\* The queue after a failed run: kept items with retryCount incremented.
RequeueAfterFailure(queue) ==
  LET kept == SelectSeq(queue, KeepOnFailure)
  IN  [i \in 1..Len(kept) |-> [kept[i] EXCEPT !.retryCount = @ + 1]]

\* The delay without the Math.min against MAX_RETRY_DELAY_MS.
MutGetRetryDelay(retryCount, jitter) ==
  BASE_RETRY_DELAY_MS * Pow2(retryCount) + jitter

\* getRetryDelay(retryCount) with the jitter drawn by Math.random().
getRetryDelay(retryCount, jitter) ==
  (IF BASE_RETRY_DELAY_MS * Pow2(retryCount) < MAX_RETRY_DELAY_MS
   THEN BASE_RETRY_DELAY_MS * Pow2(retryCount)
   ELSE MAX_RETRY_DELAY_MS) + jitter

MinRetryCount(queue) ==
  CHOOSE m \in {queue[i].retryCount : i \in 1..Len(queue)} :
    \A i \in 1..Len(queue) : m <= queue[i].retryCount

\* clearTimeout(handle) that cancels nothing.
MutClearTimeout(ts, handle) == ts

\* clearTimeout(handle)
ClearTimeout(ts, handle) == {t \in ts : t.id # handle}

\* processQueue() that returns without starting a run.
MutProcessQueueReturns(queue) == UNCHANGED <<isProcessingQueue, runs>>

\* processQueue() without the test of isProcessingQueue.
MutProcessQueue(queue) ==
  IF Len(queue) = 0
  THEN UNCHANGED <<isProcessingQueue, runs>>
  ELSE /\ isProcessingQueue' = TRUE
       /\ runs' = Append(runs, [pc |-> "reading", existing |-> <<>>,
                                newCompletions |-> <<>>])

\* The synchronous prefix of processQueue(), up to its first await: the
\* guard, the flag, and the read that is issued.
processQueue(queue) ==
  IF isProcessingQueue \/ Len(queue) = 0
  THEN UNCHANGED <<isProcessingQueue, runs>>
  ELSE /\ isProcessingQueue' = TRUE
       /\ runs' = Append(runs, [pc |-> "reading", existing |-> <<>>,
                                newCompletions |-> <<>>])

\* recordCompletion(taskId, duration), called when the clock has advanced by
\* elapsed ms since the previous call: new Date() reads now + elapsed.
RecordCompletion(taskId, duration, elapsed) ==
  /\ Len(history) < MaxRecords
  /\ now + elapsed <= MaxTime
  /\ now' = now + elapsed
  /\ LET completion == [taskId |-> taskId, completedAt |-> now',
                        duration |-> duration, retryCount |-> 0,
                        uid |-> Len(history) + 1]
     IN  /\ pendingQueue' = Append(pendingQueue, completion)
         /\ history' = Append(history, TaskCompletion(completion))
         /\ failedRuns' = Append(failedRuns, 0)
         /\ processQueue(pendingQueue')
  /\ UNCHANGED <<retryTimeout, timers, dirExists, fileExists, file,
                 everInFile, deliveredUids, dropped, cleared>>

RemoveAt(s, i) == SubSeq(s, 1, i - 1) \o SubSeq(s, i + 1, Len(s))

\* The end of a run that leaves the queue as it is.
MutFinishRunOk(r) ==
  /\ UNCHANGED pendingQueue
  /\ isProcessingQueue' = FALSE
  /\ runs' = RemoveAt(runs, r)

\* The end of a run that did not throw: lines 161-162 and the finally.
FinishRunOk(r) ==
  /\ pendingQueue' = <<>>            \* pendingQueue = stillPending
  /\ isProcessingQueue' = FALSE
  /\ runs' = RemoveAt(runs, r)

\* readExistingCompletions() resolves in run r; the run stages the queue as
\* it is now and either issues the write or, with nothing staged, finishes.
ReadDone(r, readOk) ==
  /\ r \in 1..Len(runs)
  /\ runs[r].pc = "reading"
  /\ LET existing == readExistingCompletions(readOk)
         staged == StageQueued(pendingQueue, existing)
     IN  IF Len(staged) > 0
         THEN /\ runs' = [runs EXCEPT ![r] = [pc |-> "writing",
                                              existing |-> existing,
                                              newCompletions |-> staged]]
              /\ UNCHANGED <<pendingQueue, isProcessingQueue>>
         ELSE FinishRunOk(r)
  /\ UNCHANGED <<retryTimeout, timers, dirExists, fileExists, file, now,
                 history, everInFile, deliveredUids, dropped, cleared,
                 failedRuns>>

\* writeCompletionsToFile([...existing, ...newCompletions]) resolves.
WriteOk(r) ==
  /\ r \in 1..Len(runs)
  /\ runs[r].pc = "writing"
  /\ LET staged == runs[r].newCompletions
         content == runs[r].existing \o
                    [i \in 1..Len(staged) |-> TaskCompletion(staged[i])]
     IN  /\ dirExists' = TRUE
         /\ fileExists' = TRUE
         /\ file' = content
         /\ everInFile' = everInFile \cup {KeyOf(content[i]) : i \in 1..Len(content)}
         /\ deliveredUids' = deliveredUids \cup {staged[i].uid : i \in 1..Len(staged)}
  /\ FinishRunOk(r)
  /\ UNCHANGED <<retryTimeout, timers, now, history, dropped, cleared,
                 failedRuns>>

\* writeCompletionsToFile rejects: the catch block and the finally.
\* mkdirOk tells whether ensureSharedDirExists() got as far as creating the
\* directory before the failure.
WriteFail(r, mkdirOk, jitter) ==
  /\ r \in 1..Len(runs)
  /\ runs[r].pc = "writing"
  /\ dirExists' = (dirExists \/ mkdirOk)
  /\ LET updatedQueue == RequeueAfterFailure(pendingQueue)
         queuedUids == {pendingQueue[i].uid : i \in 1..Len(pendingQueue)}
         keptUids == {updatedQueue[i].uid : i \in 1..Len(updatedQueue)}
     IN  /\ pendingQueue' = updatedQueue
         /\ dropped' = dropped \cup (queuedUids \ keptUids)
         /\ failedRuns' = [u \in 1..Len(failedRuns) |->
                             IF u \in queuedUids THEN failedRuns[u] + 1
                                                 ELSE failedRuns[u]]
         /\ IF Len(updatedQueue) > 0
            THEN LET delay == getRetryDelay(MinRetryCount(updatedQueue), jitter)
                     rest == IF retryTimeout # 0
                             THEN ClearTimeout(timers, retryTimeout)
                             ELSE timers
                     \* window.setTimeout returns a handle no pending timer has.
                     id == CHOOSE i \in 1..(Cardinality(rest) + 1) :
                             i \notin {t.id : t \in rest}
                 IN  /\ timers' = rest \cup {[id |-> id, delay |-> delay]}
                     /\ retryTimeout' = id
            ELSE UNCHANGED <<timers, retryTimeout>>
  /\ isProcessingQueue' = FALSE
  /\ runs' = RemoveAt(runs, r)
  /\ UNCHANGED <<fileExists, file, now, history, everInFile, deliveredUids,
                 cleared>>

\* The retry timer fires: retryTimeout = null; processQueue().
TimerFire(t) ==
  /\ t \in timers
  /\ timers' = timers \ {t}
  /\ retryTimeout' = 0
  /\ processQueue(pendingQueue)
  /\ UNCHANGED <<pendingQueue, dirExists, fileExists, file, now, history,
                 everInFile, deliveredUids, dropped, cleared, failedRuns>>

\* retryPendingCompletions()
RetryPendingCompletions ==
  /\ IF retryTimeout # 0
     THEN /\ timers' = ClearTimeout(timers, retryTimeout)
          /\ retryTimeout' = 0
     ELSE UNCHANGED <<timers, retryTimeout>>
  /\ processQueue(pendingQueue)
  /\ UNCHANGED <<pendingQueue, dirExists, fileExists, file, now, history,
                 everInFile, deliveredUids, dropped, cleared, failedRuns>>

\* clearPendingQueue()
ClearPendingQueue ==
  /\ pendingQueue' = <<>>
  /\ cleared' = cleared \cup {pendingQueue[i].uid : i \in 1..Len(pendingQueue)}
  /\ IF retryTimeout # 0
     THEN /\ timers' = ClearTimeout(timers, retryTimeout)
          /\ retryTimeout' = 0
     ELSE UNCHANGED <<timers, retryTimeout>>
  /\ UNCHANGED <<isProcessingQueue, runs, dirExists, fileExists, file, now,
                 history, everInFile, deliveredUids, dropped, failedRuns>>

InitRelay ==
  /\ pendingQueue = <<>>
  /\ isProcessingQueue = FALSE
  /\ retryTimeout = 0
  /\ timers = {}
  /\ runs = <<>>
  /\ dirExists = FALSE
  /\ fileExists = FALSE
  /\ file = <<>>
  /\ now = 0
  /\ history = <<>>
  /\ everInFile = {}
  /\ deliveredUids = {}
  /\ dropped = {}
  /\ cleared = {}
  /\ failedRuns = <<>>


NextRelay ==
  \/ (\E t \in {"42", "7"}, d \in {25}, e \in 0..MaxTime :
        RecordCompletion(t, d, e))
       /\ UNCHANGED <<syncVars, importerVars, docVars, viewVars>>
  \/ (\E r \in 1..Len(runs), ok \in BOOLEAN : ReadDone(r, ok))
       /\ UNCHANGED <<syncVars, importerVars, docVars, viewVars>>
  \/ (\E r \in 1..Len(runs) : WriteOk(r))
       /\ UNCHANGED <<syncVars, importerVars, docVars, viewVars>>
  \* Math.random() * 1000 lies in [0, 1000): the two extremes of the range.
  \/ (\E r \in 1..Len(runs), m \in BOOLEAN, j \in {0, JitterMax - 1} :
        WriteFail(r, m, j))
       /\ UNCHANGED <<syncVars, importerVars, docVars, viewVars>>
  \/ (\E t \in timers : TimerFire(t))
       /\ UNCHANGED <<syncVars, importerVars, docVars, viewVars>>
  \/ RetryPendingCompletions /\ UNCHANGED <<syncVars, importerVars, docVars, viewVars>>
  \/ ClearPendingQueue /\ UNCHANGED <<syncVars, importerVars, docVars, viewVars>>


(***************************************************************************)
(* Local Persistence Adapter gate and Remote Reconciler                    *)
(***************************************************************************)

ANONYMOUS_DOC_ID == "sanjou-sync-anonymous"
NoUser == "null"
Users == {"uid-1"}
Partitions == Users \cup {ANONYMOUS_DOC_ID}

\* The origin token of this replica (getClientId()) and of the other devices.
ClientId == "client-me"

\* getSyncDocId(): the partition key of an identity.
getSyncDocId(user) == IF user = NoUser THEN ANONYMOUS_DOC_ID ELSE user

\* An operation of the document: made by `client` as its clock-th operation;
\* owner is the partition under which it came into being.  An operation can
\* be integrated only after its predecessor of the same client.
Op(client, clock, owner) == [client |-> client, clock |-> clock, owner |-> owner]

Ready(op, ops) ==
  \/ op.clock = 1
  \/ \E o \in ops : /\ o.client = op.client
                    /\ o.client = "peer" => o.owner = op.owner
                    /\ o.clock = op.clock - 1

\* Y.applyUpdate(ydoc, update): operations whose predecessors are missing
\* wait in the pending set until these arrive.
RECURSIVE Integrate(_, _)
Integrate(ops, pool) ==
  LET ready == {op \in pool : Ready(op, ops)}
  IN  IF ready = {} THEN [ops |-> ops, pending |-> pool]
      ELSE Integrate(ops \cup ready, pool \ ready)

ApplyUpdate(d, update) == Integrate(d.ops, (d.pending \cup update) \ d.ops)

\* Y.encodeStateAsUpdate(ydoc): the integrated and the pending operations.
EncodeStateAsUpdate(d) == d.ops \cup d.pending

\* encodeUpdate / decodeUpdate: base64 of the bytes and back.
encodeUpdate(update) == [b64 |-> update]
decodeUpdate(encoded) == encoded.b64

Absent ==
  [exists |-> FALSE, update |-> encodeUpdate({}), fullState |-> encodeUpdate({}),
   origin |-> "none", issuedUnder |-> "none"]

\* The record setDoc() writes.  issuedUnder is history: the partition key in
\* effect when the write was issued.
Record(update, fullState, origin, under) ==
  [exists |-> TRUE, update |-> encodeUpdate(update),
   fullState |-> encodeUpdate(fullState), origin |-> origin,
   issuedUnder |-> under]

Task(kind, part, root, rec, cause) ==
  [kind |-> kind, part |-> part, root |-> root, rec |-> rec, cause |-> cause]

\* The module state the reconciler's functions read and write, as a record,
\* so that destroyFirebaseSync() and initFirebaseSync() compose.
Reconciler ==
  [syncState |-> syncState, unsubscribe |-> unsubscribe, subs |-> subs,
   updateListeners |-> updateListeners, tasks |-> tasks]

\* destroyFirebaseSync(): ends the snapshot subscription, and only that.
destroyFirebaseSync(R) ==
  [R EXCEPT !.subs = {x \in @ : x.id # R.unsubscribe},
            !.unsubscribe = 0,
            !.syncState = "offline"]

\* setupSync(db) up to its first await: subscribes to the record, registers
\* the push listener on the document, and issues the getDoc().
setupSync(R, user, root) ==
  LET part == getSyncDocId(user)
      id == CHOOSE i \in 1..(Cardinality(R.subs) + 1) :
              i \notin {x.id : x \in R.subs}
  IN  [R EXCEPT !.subs = @ \cup {[id |-> id, part |-> part, dirty |-> TRUE]},
                !.unsubscribe = id,
                !.updateListeners = Append(@, part),
                !.tasks = Append(@, Task("getDoc", part, root, Absent, 0))]

\* initFirebaseSync() up to its first await.
initFirebaseSync(R, user, root) ==
  IF firebase = "unconfigured" THEN [R EXCEPT !.syncState = "offline"]
  ELSE IF firebase = "initFails" THEN [R EXCEPT !.syncState = "error"]
  ELSE setupSync([R EXCEPT !.syncState = "syncing"], user, root)

SetReconciler(R) ==
  /\ syncState' = R.syncState
  /\ unsubscribe' = R.unsubscribe
  /\ subs' = R.subs
  /\ updateListeners' = R.updateListeners
  /\ tasks' = R.tasks

\* The push listener without the test of the origin (line 105).
MutPushTasks(listeners, update, origin, d, user, cause) ==
  [i \in 1..Len(listeners) |->
     Task("push", listeners[i], FALSE,
          Record(update, EncodeStateAsUpdate(d), ClientId, getSyncDocId(user)),
          cause)]

\* The push listener of setupSync, for every registered listener, on an
\* update event of the document: the writes it issues.
PushTasks(listeners, update, origin, d, user, cause) ==
  IF origin = "firebase" THEN <<>>
  ELSE [i \in 1..Len(listeners) |->
          Task("push", listeners[i], FALSE,
               Record(update, EncodeStateAsUpdate(d), ClientId,
                      getSyncDocId(user)),
               cause)]

\* The update event of Y.applyUpdate(ydoc, update, origin), raised when the
\* document's store changed: the writes the push listeners issue for it.
UpdateEventPushes(before, after, origin) ==
  IF after.ops = before.ops THEN <<>>
  ELSE PushTasks(updateListeners, after.ops \ before.ops, origin, after,
                 currentUser, 0)

\* The environment has events left: local mutations, writes of other
\* devices and auth notifications, MaxEvents in all.
EventsLeft == nLocal + nPeer + nAuth < MaxEvents

\* useSync: the effect runs; init() calls initLocalPersistence(), which
\* constructs the IndexeddbPersistence.
Mount ==
  /\ initPc = "start"
  /\ initPc' = "awaitLoad"
  /\ persistPc' = "loading"
  /\ lastFailure' = "none"
  /\ UNCHANGED <<storage, idbLog, replayed, loadResolved, mounted, dataLoaded,
                 ydoc, updateListeners, unsubscribe, syncState, authListener,
                 firebase, currentUser, subs, remote, tasks, nLocal, nPeer,
                 nAuth, pushCount, echoPushes>>

\* The persistence layer applies the next entry of the log to the document.
\* The update event it raises reaches the push listeners registered by then.
ReplayStep ==
  /\ persistPc = "loading"
  /\ storage = "ok"
  /\ replayed < Len(idbLog)
  /\ replayed' = replayed + 1
  /\ ydoc' = ApplyUpdate(ydoc, idbLog[replayed + 1])
  /\ LET pushes == UpdateEventPushes(ydoc, ydoc', "indexeddb")
     IN  /\ tasks' = tasks \o pushes
         /\ syncState' = IF Len(pushes) > 0 THEN "syncing" ELSE syncState
         /\ echoPushes' = echoPushes + Len(pushes)
  /\ lastFailure' = "none"
  /\ UNCHANGED <<storage, idbLog, persistPc, loadResolved, initPc, mounted,
                 dataLoaded, updateListeners, unsubscribe, authListener,
                 firebase, currentUser, subs, remote, nLocal, nPeer, nAuth,
                 pushCount>>

\* The persistence layer has applied the whole log and emits 'synced'; the
\* handler of initLocalPersistence() resolves the promise.
PersistenceSynced ==
  /\ persistPc = "loading"
  /\ storage = "ok"
  /\ replayed = Len(idbLog)
  /\ persistPc' = "synced"
  /\ loadResolved' = TRUE
  /\ lastFailure' = "none"
  /\ UNCHANGED <<storage, idbLog, replayed, initPc, mounted, dataLoaded, ydoc,
                 updateListeners, unsubscribe, syncState, authListener,
                 firebase, currentUser, subs, remote, tasks, nLocal, nPeer,
                 nAuth, pushCount, echoPushes>>

\* `await initLocalPersistence()` in init(): the continuation runs once the
\* promise has resolved.
MutAwaitLoad == TRUE
AwaitLoad == loadResolved

\* subscribeToAuthState(callback) at the end of initAuthAwareSync().  With
\* Firebase unconfigured there is no auth instance: the callback is called
\* once with null (destroyFirebaseSync, initFirebaseSync) and never again.
SubscribeToAuthState(R) ==
  IF firebase = "unconfigured"
  THEN /\ SetReconciler(initFirebaseSync(destroyFirebaseSync(R), NoUser, FALSE))
       /\ authListener' = FALSE
  ELSE /\ SetReconciler(R)
       /\ authListener' = TRUE

\* init() after the load: the mounted check, setDataLoaded(true), and
\* initAuthAwareSync() up to its first await.
InitAfterLoad ==
  /\ initPc = "awaitLoad"
  /\ AwaitLoad
  /\ IF ~mounted
     THEN /\ initPc' = "aborted"
          /\ UNCHANGED <<dataLoaded, updateListeners, unsubscribe, syncState,
                         authListener, subs, tasks>>
     ELSE /\ dataLoaded' = TRUE
          /\ LET R == initFirebaseSync(Reconciler, currentUser, TRUE)
             IN  IF firebase = "ok"
                 THEN /\ SetReconciler(R)
                      /\ initPc' = "awaitSync"
                      /\ UNCHANGED authListener
                 ELSE /\ SubscribeToAuthState(R)
                      /\ initPc' = "done"
  /\ lastFailure' = "none"
  /\ UNCHANGED <<storage, idbLog, replayed, persistPc, loadResolved, mounted,
                 ydoc, firebase, currentUser, remote, nLocal, nPeer, nAuth,
                 pushCount, echoPushes>>

\* The end of a setupSync(): initFirebaseSync() sets the state, and the
\* first one (called by initAuthAwareSync) goes on to subscribe to the auth
\* state.
EndSetup(t, R, state) ==
  LET R1 == [R EXCEPT !.tasks = RemoveAt(R.tasks, t), !.syncState = state]
  IN  IF tasks[t].root
      THEN SubscribeToAuthState(R1) /\ initPc' = "done"
      ELSE SetReconciler(R1) /\ UNCHANGED <<authListener, initPc>>

\* getDoc(syncDocRef) of a setupSync() settles.
GetDocDone(t, ok) ==
  /\ t \in 1..Len(tasks)
  /\ tasks[t].kind = "getDoc"
  /\ LET part == tasks[t].part
         snapshot == remote[part]
     IN  IF ~ok
         THEN \* setupSync throws: initFirebaseSync catches
              /\ EndSetup(t, Reconciler, "error")
              /\ UNCHANGED <<ydoc, echoPushes>>
         ELSE IF ~snapshot.exists
         THEN \* publish the full local state as the initial record
              LET fullState == EncodeStateAsUpdate(ydoc)
                  rec == Record(fullState, fullState, ClientId,
                                getSyncDocId(currentUser))
              IN  /\ tasks' = [tasks EXCEPT ![t] =
                                 Task("bootstrap", part, tasks[t].root, rec, 0)]
                  /\ UNCHANGED <<ydoc, syncState, unsubscribe, subs,
                                 updateListeners, authListener, initPc,
                                 echoPushes>>
         ELSE \* apply the remote state, with origin 'firebase'
              LET d == ApplyUpdate(ydoc, decodeUpdate(snapshot.fullState))
                  pushes == UpdateEventPushes(ydoc, d, "firebase")
              IN  /\ ydoc' = d
                  /\ echoPushes' = echoPushes + Len(pushes)
                  /\ EndSetup(t, [Reconciler EXCEPT !.tasks = @ \o pushes],
                              "synced")
  /\ lastFailure' = IF ok THEN "none" ELSE "bootstrap"
  /\ UNCHANGED <<storage, idbLog, replayed, persistPc, loadResolved, mounted,
                 dataLoaded, firebase, currentUser, remote, nLocal, nPeer,
                 nAuth, pushCount>>

IsWrite(task) == task.kind \in {"bootstrap", "push"}

\* The writes of one client reach the server in the order they were issued.
FirstWrite(t) ==
  /\ t \in 1..Len(tasks)
  /\ IsWrite(tasks[t])
  /\ \A u \in 1..(t - 1) : ~IsWrite(tasks[u])

MarkDirty(ss, part) ==
  {[x EXCEPT !.dirty = (x.dirty \/ x.part = part)] : x \in ss}

\* A setDoc() settles: the bootstrap write of setupSync, or the write of a
\* push listener.
WriteDone(t, ok) ==
  /\ FirstWrite(t)
  /\ remote' = IF ok THEN [remote EXCEPT ![tasks[t].part] = tasks[t].rec]
                     ELSE remote
  /\ LET R0 == IF ok
               THEN [Reconciler EXCEPT !.subs = MarkDirty(@, tasks[t].part)]
               ELSE Reconciler
     IN  IF tasks[t].kind = "bootstrap"
         THEN EndSetup(t, R0, IF ok THEN "synced" ELSE "error")
         ELSE /\ SetReconciler([R0 EXCEPT
                    !.tasks = RemoveAt(tasks, t),
                    !.syncState = IF ok THEN "synced" ELSE "offline"])
              /\ UNCHANGED <<authListener, initPc>>
  /\ lastFailure' = IF ok THEN "none" ELSE tasks[t].kind
  /\ UNCHANGED <<storage, idbLog, replayed, persistPc, loadResolved, mounted,
                 dataLoaded, ydoc, firebase, currentUser, nLocal, nPeer, nAuth,
                 pushCount, echoPushes>>

\* An onSnapshot handler that applies no record.
MutSnapshotApplies(data) == FALSE

\* The test of the onSnapshot handler: the record exists, has an update and
\* was not written by this client.
SnapshotApplies(data) == data.exists /\ data.origin # ClientId

\* The onSnapshot handler runs with the current content of the record.
SnapshotDeliver(x) ==
  /\ x \in subs
  /\ x.dirty
  /\ subs' = (subs \ {x}) \cup {[x EXCEPT !.dirty = FALSE]}
  /\ LET data == remote[x.part]
         d == IF SnapshotApplies(data)
              THEN ApplyUpdate(ydoc, decodeUpdate(data.update))
              ELSE ydoc
         pushes == UpdateEventPushes(ydoc, d, "firebase")
     IN  /\ ydoc' = d
         /\ tasks' = tasks \o pushes
         /\ echoPushes' = echoPushes + Len(pushes)
  /\ syncState' = "synced"
  /\ lastFailure' = "none"
  /\ UNCHANGED <<storage, idbLog, replayed, persistPc, loadResolved, initPc,
                 mounted, dataLoaded, updateListeners, unsubscribe,
                 authListener, firebase, currentUser, remote, nLocal,
                 nPeer, nAuth, pushCount>>

\* The onSnapshot error callback: the subscription has ended with an error.
SnapshotError(x) ==
  /\ x \in subs
  /\ subs' = subs \ {x}
  /\ syncState' = "offline"
  /\ lastFailure' = "snapshot"
  /\ UNCHANGED <<storage, idbLog, replayed, persistPc, loadResolved, initPc,
                 mounted, dataLoaded, ydoc, updateListeners, unsubscribe,
                 authListener, firebase, currentUser, remote, tasks, nLocal,
                 nPeer, nAuth, pushCount, echoPushes>>

\* Another device of partition part writes its next operation to the record.
PeerWrite(part) ==
  /\ EventsLeft
  /\ firebase = "ok"
  /\ nPeer' = nPeer + 1
  /\ LET known == IF remote[part].exists
                  THEN decodeUpdate(remote[part].fullState) ELSE {}
         mine == {o \in known : o.client = "peer" /\ o.owner = part}
         op == Op("peer", Cardinality(mine) + 1, part)
     IN  remote' = [remote EXCEPT ![part] =
                      Record({op}, known \cup {op}, "client-peer", part)]
  /\ subs' = MarkDirty(subs, part)
  /\ lastFailure' = "none"
  /\ UNCHANGED <<storage, idbLog, replayed, persistPc, loadResolved, initPc,
                 mounted, dataLoaded, ydoc, updateListeners, unsubscribe,
                 syncState, authListener, firebase, currentUser, tasks, nLocal,
                 nAuth, pushCount, echoPushes>>

\* The auth state is notified: the identity becomes user; the callback of
\* initAuthAwareSync, when registered, runs destroyFirebaseSync() and
\* initFirebaseSync() up to its first await.
AuthStateChanged(user) ==
  /\ EventsLeft
  /\ firebase # "unconfigured"
  /\ nAuth' = nAuth + 1
  /\ currentUser' = user
  /\ IF authListener
     THEN SetReconciler(initFirebaseSync(destroyFirebaseSync(Reconciler),
                                         user, FALSE))
     ELSE UNCHANGED <<syncState, unsubscribe, subs, updateListeners, tasks>>
  /\ lastFailure' = "none"
  /\ UNCHANGED <<storage, idbLog, replayed, persistPc, loadResolved, initPc,
                 mounted, dataLoaded, ydoc, authListener, firebase, remote,
                 nLocal, nPeer, pushCount, echoPushes>>

\* The user edits the document (the views render once dataLoaded): one
\* operation, one update event with a local origin.
LocalMutation ==
  /\ mounted
  /\ dataLoaded
  /\ EventsLeft
  /\ nLocal' = nLocal + 1
  /\ LET op == Op("me", nLocal + 1, getSyncDocId(currentUser))
         d == ApplyUpdate(ydoc, {op})
         pushes == PushTasks(updateListeners, {op}, "local", d, currentUser,
                             nLocal + 1)
     IN  /\ ydoc' = d
         /\ tasks' = tasks \o pushes
         /\ syncState' = IF Len(pushes) > 0 THEN "syncing" ELSE syncState
         /\ pushCount' = Append(pushCount, Len(pushes))
  /\ lastFailure' = "none"
  /\ UNCHANGED <<storage, idbLog, replayed, persistPc, loadResolved, initPc,
                 mounted, dataLoaded, updateListeners, unsubscribe,
                 authListener, firebase, currentUser, subs, remote, nPeer,
                 nAuth, echoPushes>>

\* The effect's cleanup: destroyAuthAwareSync() and destroyLocalPersistence().
Unmount ==
  /\ mounted
  /\ initPc # "start"
  /\ mounted' = FALSE
  /\ authListener' = FALSE
  /\ SetReconciler(destroyFirebaseSync(Reconciler))
  /\ persistPc' = "destroyed"
  /\ lastFailure' = "none"
  /\ UNCHANGED <<storage, idbLog, replayed, loadResolved, initPc, dataLoaded,
                 ydoc, firebase, currentUser, remote, nLocal, nPeer, nAuth,
                 pushCount, echoPushes>>

SyncIdle ==
  /\ replayed = 0
  /\ persistPc = "none"
  /\ loadResolved = FALSE
  /\ initPc = "start"
  /\ mounted = TRUE
  /\ dataLoaded = FALSE
  /\ ydoc = [ops |-> {}, pending |-> {}]
  /\ updateListeners = <<>>
  /\ unsubscribe = 0
  /\ syncState = "offline"
  /\ authListener = FALSE
  /\ subs = {}
  /\ remote = [p \in Partitions |-> Absent]
  /\ tasks = <<>>
  /\ nLocal = 0
  /\ nPeer = 0
  /\ nAuth = 0
  /\ pushCount = <<>>
  /\ echoPushes = 0
  /\ lastFailure = "none"

\* The durable change log of earlier sessions: entry k holds the k-th
\* operation of the earlier session's document client.  The partition these
\* came into being under is not known to this session.
InitSync ==
  /\ storage \in {"ok", "unavailable"}
  /\ firebase \in {"unconfigured", "initFails", "ok"}
  /\ currentUser = NoUser
  /\ \E n \in 0..MaxLog :
       idbLog = [k \in 1..n |-> {Op("prev", k, "earlier-session")}]
  /\ SyncIdle


NextSync ==
  \/ Mount /\ UNCHANGED <<relayVars, importerVars, docVars, viewVars>>
  \/ ReplayStep /\ UNCHANGED <<relayVars, importerVars, docVars, viewVars>>
  \/ PersistenceSynced /\ UNCHANGED <<relayVars, importerVars, docVars, viewVars>>
  \/ InitAfterLoad /\ UNCHANGED <<relayVars, importerVars, docVars, viewVars>>
  \/ (\E t \in 1..Len(tasks), ok \in BOOLEAN : GetDocDone(t, ok))
       /\ UNCHANGED <<relayVars, importerVars, docVars, viewVars>>
  \/ (\E t \in 1..Len(tasks), ok \in BOOLEAN : WriteDone(t, ok))
       /\ UNCHANGED <<relayVars, importerVars, docVars, viewVars>>
  \/ (\E x \in subs : SnapshotDeliver(x))
       /\ UNCHANGED <<relayVars, importerVars, docVars, viewVars>>
  \/ (\E x \in subs : SnapshotError(x))
       /\ UNCHANGED <<relayVars, importerVars, docVars, viewVars>>
  \/ (\E p \in Partitions : PeerWrite(p))
       /\ UNCHANGED <<relayVars, importerVars, docVars, viewVars>>
  \/ (\E u \in Users \cup {NoUser} : AuthStateChanged(u))
       /\ UNCHANGED <<relayVars, importerVars, docVars, viewVars>>
  \/ LocalMutation /\ UNCHANGED <<relayVars, importerVars, docVars, viewVars>>
  \/ Unmount /\ UNCHANGED <<relayVars, importerVars, docVars, viewVars>>

(***************************************************************************)
(* External Task Importer                                                  *)
(***************************************************************************)
SUBETE_MAX_RETRIES == 3
RETRY_DELAY_MS == 500

\* previousTaskCountRef before the first successful poll (null).
NullCount == -1

\* A SubeteTask is identified by its id; the lists the external file holds.
TaskLists == {<<>>, <<"a">>, <<"a", "b">>}

\* States of the external file.
Missing == [kind |-> "missing", tasks |-> <<>>]
FileStates ==
  {Missing, [kind |-> "garbage", tasks |-> <<>>],
   [kind |-> "notArray", tasks |-> <<>>]}
    \cup {[kind |-> "list", tasks |-> l] : l \in TaskLists}

\* Error messages, and the words each contains.
BusyMessage == "EBUSY: resource busy or locked"
NotFoundMessage == "ENOENT: no such file or directory"
ParseMessage == "Unexpected token in JSON at position 0"
IoErrors == {BusyMessage, "permission denied"}
Includes(message, word) ==
  word \in (CASE message = BusyMessage -> {"EBUSY", "busy", "locked", "lock"}
              [] message = NotFoundMessage -> {"ENOENT"}
              [] message = ParseMessage -> {"JSON"}
              [] OTHER -> {})
\* toLowerCase() of the messages above keeps "busy", "lock"; "EBUSY" -> "ebusy".
LowerIncludes(message, word) ==
  word \in (CASE message = BusyMessage -> {"ebusy", "busy", "locked", "lock"}
              [] OTHER -> {})

\* loadCachedTasks()
loadCachedTasks(stored) == IF stored = <<>> THEN <<>> ELSE stored[1]

\* saveCachedTasks(tasks); setItem may throw, which is swallowed.
saveCachedTasks(stored, list, saveOk) == IF saveOk THEN <<list>> ELSE stored

\* The retry test of the catch block holding for every error.
MutIsRetryable(message) == TRUE

\* readSharedTasks: the retry test of the catch block.
isRetryable(message) ==
  \/ LowerIncludes(message, "lock")
  \/ LowerIncludes(message, "busy")
  \/ LowerIncludes(message, "ebusy")
  \/ LowerIncludes(message, "eagain")

NoPoll == [result |-> "none", list |-> <<>>, tasksBefore |-> <<>>,
           cacheBefore |-> <<>>, toasts |-> <<>>, attempts |-> 0,
           slept |-> <<>>, message |-> "null", saveOk |-> TRUE]

\* refresh(), up to the first await.
StartRefresh ==
  /\ Len(polls) < MaxInflight
  /\ syncStatus' = "syncing"
  /\ polls' = Append(polls, [pc |-> "exists", attempt |-> 0, slept |-> <<>>,
                            retried |-> <<>>])
  /\ lastPoll' = NoPoll
  /\ UNCHANGED <<sharedFile, cache, subeteTasks, loading, error,
                 previousTaskCountRef, hasInitialLoadRef, lastErrorRef,
                 consecutiveErrorsRef>>

\* refresh(): readSharedTasks() returned { tasks: sharedTasks, fromCache }.
RefreshSucceeds(r, result, sharedTasks, fromCache, saveOk) ==
  LET previousCount == previousTaskCountRef
      newCount == Len(sharedTasks)
      countToast ==
        IF hasInitialLoadRef /\ previousCount # NullCount
           /\ newCount # previousCount
        THEN IF newCount - previousCount > 0
             THEN <<"success: tasks synced from Subete">>
             ELSE <<"info: Task list updated">>
        ELSE <<>>
      restoredToast ==
        IF lastErrorRef # "null" THEN <<"success: Sync restored">> ELSE <<>>
  IN /\ subeteTasks' = sharedTasks
     /\ error' = "null"
     /\ syncStatus' = IF fromCache THEN "offline" ELSE "synced"
     /\ consecutiveErrorsRef' = 0
     /\ cache' = IF ~fromCache /\ Len(sharedTasks) > 0
                 THEN saveCachedTasks(cache, sharedTasks, saveOk)
                 ELSE cache
     /\ lastErrorRef' = "null"
     /\ previousTaskCountRef' = newCount
     /\ hasInitialLoadRef' = TRUE
     /\ loading' = FALSE
     /\ polls' = RemoveAt(polls, r)
     /\ lastPoll' = [result |-> result, list |-> sharedTasks,
                     tasksBefore |-> subeteTasks, cacheBefore |-> cache,
                     toasts |-> countToast \o restoredToast,
                     attempts |-> polls[r].attempt + 1,
                     slept |-> polls[r].slept, message |-> "null",
                     saveOk |-> saveOk]

\* The catch block of refresh() with the tasks state cleared.
MutTasksOnError(list) == <<>>

\* The catch block of refresh() has no setTasks(): the tasks state is not
\* cleared on error.
TasksOnError(list) == list

\* refresh(): readSharedTasks() threw errorMessage.
RefreshFails(r, errorMessage) ==
  LET shouldShowToast == /\ hasInitialLoadRef
                         /\ lastErrorRef # errorMessage
                         /\ consecutiveErrorsRef + 1 <= 3
      locked == \/ Includes(errorMessage, "locked")
                \/ Includes(errorMessage, "EBUSY")
                \/ Includes(errorMessage, "busy")
      notFound == \/ Includes(errorMessage, "ENOENT")
                  \/ Includes(errorMessage, "not found")
      parse == \/ Includes(errorMessage, "parse")
               \/ Includes(errorMessage, "JSON")
      toast == IF ~shouldShowToast \/ (~locked /\ notFound) THEN <<>>
               ELSE IF locked THEN <<"warning: Task file is locked">>
               ELSE IF parse THEN <<"error: Invalid task file format">>
               ELSE <<"warning: Sync temporarily unavailable">>
  IN /\ consecutiveErrorsRef < MaxErrors
     /\ error' = errorMessage
     /\ syncStatus' = IF shouldShowToast /\ ~locked /\ notFound
                      THEN "offline" ELSE "error"
     /\ consecutiveErrorsRef' = consecutiveErrorsRef + 1
     /\ lastErrorRef' = IF shouldShowToast THEN errorMessage ELSE lastErrorRef
     /\ loading' = FALSE
     /\ polls' = RemoveAt(polls, r)
     /\ lastPoll' = [result |-> "failed", list |-> <<>>,
                     tasksBefore |-> subeteTasks, cacheBefore |-> cache,
                     toasts |-> toast, attempts |-> polls[r].attempt + 1,
                     slept |-> polls[r].slept, message |-> errorMessage,
                     saveOk |-> TRUE]
     /\ subeteTasks' = TasksOnError(subeteTasks)
     /\ UNCHANGED <<cache, previousTaskCountRef, hasInitialLoadRef>>

\* readSharedTasks: the catch block of one attempt.
Caught(r, message) ==
  IF isRetryable(message) /\ polls[r].attempt < SUBETE_MAX_RETRIES - 1
  THEN /\ polls' = [polls EXCEPT ![r].pc = "sleep",
                      ![r].slept = Append(@, RETRY_DELAY_MS
                                              * Pow2(polls[r].attempt)),
                      ![r].retried = Append(@, message)]
       /\ UNCHANGED <<cache, subeteTasks, loading, error, syncStatus,
                      previousTaskCountRef, hasInitialLoadRef, lastErrorRef,
                      consecutiveErrorsRef, lastPoll>>
  ELSE RefreshFails(r, message)

\* readSharedTasks: `await exists(filePath)` settles; io is "ok" or the
\* message it rejects with.
ExistsDone(r, io) ==
  /\ polls[r].pc = "exists"
  /\ IF io # "ok" THEN Caught(r, io)
     ELSE IF sharedFile.kind = "missing"
     THEN RefreshSucceeds(r, "missing", <<>>, FALSE, TRUE)
     ELSE /\ polls' = [polls EXCEPT ![r].pc = "read"]
          /\ UNCHANGED <<cache, subeteTasks, loading, error, syncStatus,
                         previousTaskCountRef, hasInitialLoadRef,
                         lastErrorRef, consecutiveErrorsRef, lastPoll>>
  /\ UNCHANGED sharedFile

\* readSharedTasks: `await readTextFile(filePath)` settles, then JSON.parse
\* and the Array.isArray validation.
ReadTextFileDone(r, io) ==
  /\ polls[r].pc = "read"
  /\ IF io # "ok" THEN Caught(r, io)
     ELSE CASE sharedFile.kind = "missing" -> Caught(r, NotFoundMessage)
            [] sharedFile.kind = "garbage" -> Caught(r, ParseMessage)
            [] sharedFile.kind = "notArray" -> Caught(r, "Invalid tasks format: expected array")
            [] OTHER ->
                 \E saveOk \in IF sharedFile.tasks = <<>> THEN {TRUE} ELSE BOOLEAN :
                   RefreshSucceeds(r, "read", sharedFile.tasks, FALSE, saveOk)
  /\ UNCHANGED sharedFile

\* readSharedTasks: `await sleep(delay)` settles; the loop continues.
SleepDone(r) ==
  /\ polls[r].pc = "sleep"
  /\ polls' = [polls EXCEPT ![r].pc = "exists", ![r].attempt = @ + 1]
  /\ UNCHANGED <<sharedFile, cache, subeteTasks, loading, error, syncStatus,
                 previousTaskCountRef, hasInitialLoadRef, lastErrorRef,
                 consecutiveErrorsRef, lastPoll>>

\* The owner of the external file writes, corrupts or deletes it.
FileChange(f) ==
  /\ f # sharedFile
  /\ sharedFile' = f
  /\ UNCHANGED <<cache, subeteTasks, loading, error, syncStatus,
                 previousTaskCountRef, hasInitialLoadRef, lastErrorRef,
                 consecutiveErrorsRef, polls, lastPoll>>

\* useSubeteTasks(): the state after the first render.
ImporterState(f, stored) ==
  /\ sharedFile = f
  /\ cache = stored
  /\ subeteTasks = loadCachedTasks(stored)
  /\ loading = TRUE
  /\ error = "null"
  /\ syncStatus = "syncing"
  /\ previousTaskCountRef = NullCount
  /\ hasInitialLoadRef = FALSE
  /\ lastErrorRef = "null"
  /\ consecutiveErrorsRef = 0
  /\ polls = <<>>
  /\ lastPoll = NoPoll

\* An earlier session left no cache or a non-empty list in it.
InitImporter ==
  \E f \in FileStates, stored \in {<<>>} \cup {<<l>> : l \in TaskLists \ {<<>>}} :
    ImporterState(f, stored)


NextImporter ==
  \/ StartRefresh /\ UNCHANGED <<relayVars, syncVars, docVars, viewVars>>
  \/ (\E r \in 1..Len(polls), io \in {"ok"} \cup IoErrors : ExistsDone(r, io))
       /\ UNCHANGED <<relayVars, syncVars, docVars, viewVars>>
  \/ (\E r \in 1..Len(polls), io \in {"ok"} \cup IoErrors : ReadTextFileDone(r, io))
       /\ UNCHANGED <<relayVars, syncVars, docVars, viewVars>>
  \/ (\E r \in 1..Len(polls) : SleepDone(r))
       /\ UNCHANGED <<relayVars, syncVars, docVars, viewVars>>
  \/ (\E f \in FileStates : FileChange(f))
       /\ UNCHANGED <<relayVars, syncVars, docVars, viewVars>>

(***************************************************************************)
(* Document Store: the shared document of yjsProvider.ts and its replicas  *)
(***************************************************************************)

\* Y.Doc clientIDs of the replicas that edit, and of all replicas.
Writers == {1, 2}
Replicas == Writers \cup {3}

ArrayTypes == {"blocks", "breaks"}

\* An item of a shared type: one element of an array, or one value a map
\* key has had.  id is <<client, clock>>; origin and rightOrigin are the ids
\* of its neighbours where it was created.  Arrays use key 0.
NullId == <<0, 0>>
Item(id, origin, rightOrigin, type, key, content) ==
  [id |-> id, origin |-> origin, rightOrigin |-> rightOrigin, type |-> type,
   key |-> key, content |-> content, deleted |-> FALSE]

EmptyDoc == [store |-> [s \in {} |-> <<>>], pendingItems |-> {}, pendingDs |-> {}]

\* The item list of a shared type (of one key of a map), deleted items too.
List(store, type, key) ==
  IF <<type, key>> \in DOMAIN store THEN store[<<type, key>>] ELSE <<>>

Ids(store) ==
  UNION {{store[s][i].id : i \in 1..Len(store[s])} : s \in DOMAIN store}

\* The next clock of a client: every item has length 1.
StateVector(store, client) ==
  Cardinality({id \in Ids(store) : id[1] = client})

IndexOf(seq, id) ==
  IF id = NullId THEN 0 ELSE CHOOSE i \in 1..Len(seq) : seq[i].id = id

\* Two items created at the same place in arrival order: the one that came
\* first stays first.
MutPrecedesOnConflict(o, item) == TRUE

\* Two items created at the same place: the one of the smaller client comes
\* first.
PrecedesOnConflict(o, item) == o.id[1] < item.id[1]

\* Item.integrate: the conflict scan from the item after origin up to
\* rightOrigin; the result is the index the item is placed after.
RECURSIVE Scan(_, _, _, _, _, _)
Scan(seq, item, o, left, conflicting, before) ==
  IF o > Len(seq) \/ seq[o].id = item.rightOrigin THEN left
  ELSE LET oi == seq[o]
           before2 == before \cup {oi.id}
           conflicting2 == conflicting \cup {oi.id}
       IN IF oi.origin = item.origin
          THEN IF PrecedesOnConflict(oi, item)
               THEN Scan(seq, item, o + 1, o, {}, before2)
               ELSE IF oi.rightOrigin = item.rightOrigin THEN left
               ELSE Scan(seq, item, o + 1, left, conflicting2, before2)
          ELSE IF oi.origin # NullId /\ oi.origin \in before2
          THEN IF oi.origin \notin conflicting2
               THEN Scan(seq, item, o + 1, o, {}, before2)
               ELSE Scan(seq, item, o + 1, left, conflicting2, before2)
          ELSE left

\* Item.integrate, after the item is placed after index left.  A map key
\* shows its last item: an item placed last deletes the one before it, an
\* item placed elsewhere is deleted itself.
Shown(item, left, placed) ==
  IF item.type \in ArrayTypes THEN placed
  ELSE IF left + 1 = Len(placed)
  THEN IF left > 0 THEN [placed EXCEPT ![left].deleted = TRUE] ELSE placed
  ELSE [placed EXCEPT ![left + 1].deleted = TRUE]

Placed(seq, item, left) ==
  Shown(item, left, SubSeq(seq, 1, left) \o <<item>>
                      \o SubSeq(seq, left + 1, Len(seq)))

PlaceFrom(seq, item, start) ==
  Placed(seq, item, Scan(seq, item, start + 1, start, {}, {}))

\* Item.integrate
integrate(store, item) ==
  (<<item.type, item.key>> :>
     PlaceFrom(List(store, item.type, item.key), item,
               IndexOf(List(store, item.type, item.key), item.origin))) @@ store

\* Item.delete for a set of ids.
DeleteIds(store, ds) ==
  [s \in DOMAIN store |->
     [i \in 1..Len(store[s]) |->
        IF store[s][i].id \in ds THEN [store[s][i] EXCEPT !.deleted = TRUE]
        ELSE store[s][i]]]

\* An item can be integrated when it is the next of its client and its
\* neighbours are in the store.
CanIntegrate(store, item) ==
  /\ item.id[2] = StateVector(store, item.id[1])
  /\ {item.origin, item.rightOrigin} \subseteq Ids(store) \cup {NullId}

\* Integrate what can be integrated of the pending items, then apply the
\* pending deletions whose items are there.
RECURSIVE Settle(_)
Settle(doc) ==
  LET ready == {it \in doc.pendingItems : CanIntegrate(doc.store, it)}
  IN IF ready # {}
     THEN LET it == CHOOSE x \in ready :
                      \A y \in ready :
                        \/ x.id[1] < y.id[1]
                        \/ x.id[1] = y.id[1] /\ x.id[2] <= y.id[2]
          IN Settle([doc EXCEPT !.store = integrate(@, it),
                                !.pendingItems = @ \ {it}])
     ELSE LET present == doc.pendingDs \cap Ids(doc.store)
          IN [doc EXCEPT !.store = DeleteIds(@, present),
                         !.pendingDs = @ \ present]

\* Y.applyUpdate(doc, update): items the store has already are skipped.
applyUpdate(doc, update) ==
  LET new == {update.items[i] : i \in 1..Len(update.items)}
      unseen == {it \in new : it.id[2] >= StateVector(doc.store, it.id[1])}
  IN Settle([doc EXCEPT !.pendingItems = @ \cup unseen,
                        !.pendingDs = @ \cup update.ds])

\* toArray(): the contents of the items that are not deleted.
toArray(seq) ==
  LET live == SelectSeq(seq, LAMBDA it : ~it.deleted)
  IN [i \in 1..Len(live) |-> live[i].content]

\* The position in seq of the n-th item that is not deleted.
RECURSIVE LivePosFrom(_, _, _)
LivePosFrom(seq, i, n) ==
  IF seq[i].deleted THEN LivePosFrom(seq, i + 1, n)
  ELSE IF n = 1 THEN i ELSE LivePosFrom(seq, i + 1, n - 1)

\* map.get(key): <<>> for undefined, else <<value>>.
MapGet(store, type, key) ==
  LET seq == List(store, type, key)
  IN IF seq = <<>> \/ seq[Len(seq)].deleted THEN <<>>
     ELSE <<seq[Len(seq)].content>>

\* map.entries(), as a set of <<key, value>>.
MapEntries(store, type) ==
  {<<s[2], MapGet(store, type, s[2])[1]>> :
     s \in {t \in DOMAIN store : t[1] = type /\ MapGet(store, type, t[2]) # <<>>}}

\* What the subscribers of a shared type are called with.
Snapshot(store, type) ==
  IF type \in ArrayTypes THEN toArray(List(store, type, 0))
  ELSE MapEntries(store, type)

\* blocks.findIndex(b => b.id === id), counted from 1; 0 for -1.
findIndex(arr, id) ==
  IF \E i \in 1..Len(arr) : arr[i].id = id
  THEN CHOOSE i \in 1..Len(arr) :
         arr[i].id = id /\ \A j \in 1..(i - 1) : arr[j].id # id
  ELSE 0

\* { ...value, ...updates }
Spread(value, updates) ==
  [f \in DOMAIN value |-> IF f \in DOMAIN updates THEN updates[f] ELSE value[f]]

\* One change made inside a transaction.
Step(op, type, key, index, content) ==
  [op |-> op, type |-> type, key |-> key, index |-> index, content |-> content]

\* A transaction tx is the store, the items created and the ids deleted so
\* far.
Created(tx, item, ds) ==
  [store |-> DeleteIds(integrate(tx.store, item), ds),
   items |-> Append(tx.items, item), ds |-> tx.ds \cup ds]
Deleted(tx, ds) == [tx EXCEPT !.store = DeleteIds(@, ds), !.ds = @ \cup ds]

LastId(seq) == IF seq = <<>> THEN NullId ELSE seq[Len(seq)].id
LastIsLive(seq) == seq # <<>> /\ ~seq[Len(seq)].deleted
IdAt(seq, p) == IF p = 0 \/ p > Len(seq) THEN NullId ELSE seq[p].id

\* array.insert(index, [content]) with the item that is index-th now at
\* position p (0: none): the new item goes between it and its right
\* neighbour.
InsertedAt(tx, step, seq, id, p) ==
  Created(tx, Item(id, IdAt(seq, p), IdAt(seq, p + 1), step.type, 0,
                   step.content), {})

\* The effect of one change on the item list seq of its type; id is the id
\* of the item it creates, if any.
ExecAt(tx, step, seq, id) ==
  CASE step.op = "push" ->
         Created(tx, Item(id, LastId(seq), NullId, step.type, 0, step.content),
                 {})
    [] step.op = "insert" ->
         InsertedAt(tx, step, seq, id,
                    IF step.index = 0 THEN 0 ELSE LivePosFrom(seq, 1, step.index))
    [] step.op = "delete" ->
         Deleted(tx, {seq[LivePosFrom(seq, 1, step.index + 1)].id})
    [] step.op = "set" ->
         Created(tx, Item(id, LastId(seq), NullId, step.type, step.key,
                          step.content),
                 IF LastIsLive(seq) THEN {LastId(seq)} ELSE {})
    [] step.op = "mapDelete" ->
         IF LastIsLive(seq) THEN Deleted(tx, {LastId(seq)}) ELSE tx

\* The effect of one change at the replica of client w.
ExecStep(tx, w, step) ==
  ExecAt(tx, step, List(tx.store, step.type, step.key),
         <<w, StateVector(tx.store, w)>>)

RECURSIVE RunSteps(_, _, _)
RunSteps(tx, w, steps) ==
  IF steps = <<>> THEN tx
  ELSE RunSteps(ExecStep(tx, w, Head(steps)), w, Tail(steps))

\* The changes of f made without transact(): a transaction each.
MutTransact(steps) == [i \in 1..Len(steps) |-> <<steps[i]>>]

\* ydoc.transact(f): the changes f makes are one transaction.  A change
\* made outside transact() is a transaction of its own.
transact(steps) == <<steps>>
Alone(step) == <<<<step>>>>

\* The transactions of one call run one after the other; each ends with one
\* update event and one call of the observers of the type it changed.
EndTransaction(run, tx, type) ==
  [store |-> tx.store,
   updates |-> Append(run.updates, [items |-> tx.items, ds |-> tx.ds]),
   notified |-> Append(run.notified, Snapshot(tx.store, type))]

RECURSIVE RunTransactions(_, _, _)
RunTransactions(run, w, txs) ==
  IF txs = <<>> THEN run
  ELSE RunTransactions(
         EndTransaction(run,
                        RunSteps([store |-> run.store, items |-> <<>>,
                                  ds |-> {}], w, Head(txs)),
                        Head(txs)[1].type),
         w, Tail(txs))

NoCall == [call |-> "none", replica |-> 0, id |-> 0, index |-> 0,
           fields |-> {}, before |-> <<>>, notified |-> <<>>]

\* A call of a document operation at the replica of client w that changes
\* the document.
Commit(w, run, newIds, op) ==
  /\ calls' = calls + 1
  /\ generated' = generated + newIds
  /\ replicas' = [replicas EXCEPT ![w].store = run.store]
  /\ produced' = [produced EXCEPT ![w] = @ \o run.updates]
  /\ applied' = [applied EXCEPT ![w][w] = Len(produced'[w])]
  /\ lastOp' = [op EXCEPT !.notified = run.notified]

CallsLeft == calls < MaxCalls

Call(w, txs, newIds, op) ==
  /\ CallsLeft
  /\ Commit(w, RunTransactions([store |-> replicas[w].store,
                                updates |-> <<>>, notified |-> <<>>], w, txs),
            newIds, op)

\* addBlock / addBreak: array.push([element]).
AddToArray(w, type, element) ==
  Call(w, Alone(Step("push", type, 0, 0, element)), 1, NoCall)

\* updateBlock(id, updates) / updateBreak(id, updates).
UpdateInArray(w, name, type, id, updates) ==
  LET arr == toArray(List(replicas[w].store, type, 0))
      index == findIndex(arr, id)
  IN /\ CallsLeft
     /\ index # 0
     /\ Call(w,
             transact(<<Step("delete", type, 0, index - 1, <<>>),
                        Step("insert", type, 0, index - 1,
                             Spread(arr[index], updates))>>),
             0,
             [call |-> name, replica |-> w, id |-> id, index |-> index,
              fields |-> DOMAIN updates, before |-> arr, notified |-> <<>>])

updateBlock(w, id, updates) == UpdateInArray(w, "updateBlock", "blocks", id, updates)
updateBreak(w, id, updates) == UpdateInArray(w, "updateBreak", "breaks", id, updates)

\* Date.now()
Times == {1}

\* useBlocks
createBlock(w, taskId) ==
  AddToArray(w, "blocks", [id |-> generated + 1, taskId |-> taskId,
                           completedAt |-> 0, isValid |-> TRUE,
                           notes |-> "undefined"])
\* completeBlock() that also marks the block invalid.
MutCompleteBlock(w, id) ==
  \E t \in Times : updateBlock(w, id, [completedAt |-> t, isValid |-> FALSE])

completeBlock(w, id) == \E t \in Times : updateBlock(w, id, [completedAt |-> t])
invalidateBlock(w, id) == updateBlock(w, id, [isValid |-> FALSE])
updateBlockNotes(w, id) == updateBlock(w, id, [notes |-> "n"])

\* useBreaks
startBreak(w) ==
  AddToArray(w, "breaks", [id |-> generated + 1, endedAt |-> 0,
                           notes |-> "undefined"])
endBreak(w, id) ==
  \E t \in Times : updateBreak(w, id, [endedAt |-> t, notes |-> "undefined"])

\* map.set(key, value), a transaction of its own.
SetInMap(w, type, key, value, newIds) ==
  Call(w, Alone(Step("set", type, key, 0, value)), newIds, NoCall)
\* map.delete(key); a key that is not there changes nothing.
DeleteInMap(w, type, key) ==
  /\ CallsLeft
  /\ MapGet(replicas[w].store, type, key) # <<>>
  /\ Call(w, Alone(Step("mapDelete", type, key, 0, <<>>)), 0, NoCall)

\* updateTask(id, updates)
updateTask(w, id, updates) ==
  LET task == MapGet(replicas[w].store, "tasks", id)
  IN /\ CallsLeft
     /\ task # <<>>
     /\ \E t \in Times :
          SetInMap(w, "tasks", id,
                   Spread(Spread(task[1], updates), [modifiedAt |-> t]), 0)

\* the tasks hook
createTask(w) ==
  \E t \in Times :
    SetInMap(w, "tasks", generated + 1,
             [id |-> generated + 1, completed |-> FALSE, blocksSpent |-> 0,
              modifiedAt |-> t], 1)
incrementBlocksSpent(w, taskId) ==
  LET task == MapGet(replicas[w].store, "tasks", taskId)
  IN /\ CallsLeft
     /\ task # <<>>
     /\ updateTask(w, taskId, [blocksSpent |-> task[1].blocksSpent + 1])
removeTask(w, id) == DeleteInMap(w, "tasks", id)

\* useRightNowList
createList(w, blockId) ==
  SetInMap(w, "rightNowLists", generated + 1,
           [id |-> generated + 1, blockId |-> blockId], 1)
removeList(w, listId) == DeleteInMap(w, "rightNowLists", listId)

\* setTaskNotes(taskContent, notes): blank notes delete the entry.
setTaskNotes(w, taskContent, notes) ==
  IF notes # "" THEN SetInMap(w, "taskNotes", taskContent, notes, 0)
  ELSE DeleteInMap(w, "taskNotes", taskContent)

\* Replica r receives the k-th update of writer w: the next one it has not
\* applied, or once more the latest it has applied.  A replica that does not
\* write is a device set up after the writers are done: it fetches their
\* updates in any order that keeps the order of each writer, after the
\* writers have made their calls and applied each other's updates.
Deliver(r, w, k) ==
  /\ r # w
  /\ \/ r \in Writers
     \/ /\ ~CallsLeft
        /\ \A a \in Writers, b \in Writers : applied[a][b] = Len(produced[b])
  /\ k \in 1..Len(produced[w])
  /\ k \in {applied[r][w], applied[r][w] + 1}
  /\ replicas' = [replicas EXCEPT ![r] = applyUpdate(@, produced[w][k])]
  /\ applied' = [applied EXCEPT ![r][w] = IF k > @ THEN k ELSE @]
  /\ lastOp' = NoCall
  /\ UNCHANGED <<produced, generated, calls>>

InitDoc ==
  /\ replicas = [r \in Replicas |-> EmptyDoc]
  /\ produced = [w \in Writers |-> <<>>]
  /\ applied = [r \in Replicas |-> [w \in Writers |-> 0]]
  /\ generated = 0
  /\ calls = 0
  /\ lastOp = NoCall

Issued == 1..generated

NextDoc ==
  \/ (\E w \in Writers, t \in 0..generated :
        /\ CallsLeft
        /\ t = 0 \/ MapGet(replicas[w].store, "tasks", t) # <<>>
        /\ createBlock(w, t))
       /\ UNCHANGED <<relayVars, syncVars, importerVars, viewVars>>
  \/ (\E w \in Writers, id \in Issued : completeBlock(w, id)) /\ UNCHANGED <<relayVars, syncVars, importerVars, viewVars>>
  \/ (\E w \in Writers, id \in Issued : invalidateBlock(w, id)) /\ UNCHANGED <<relayVars, syncVars, importerVars, viewVars>>
  \/ (\E w \in Writers, id \in Issued : updateBlockNotes(w, id)) /\ UNCHANGED <<relayVars, syncVars, importerVars, viewVars>>
  \/ (\E w \in Writers : startBreak(w)) /\ UNCHANGED <<relayVars, syncVars, importerVars, viewVars>>
  \/ (\E w \in Writers, id \in Issued : endBreak(w, id)) /\ UNCHANGED <<relayVars, syncVars, importerVars, viewVars>>
  \/ (\E w \in Writers : createTask(w)) /\ UNCHANGED <<relayVars, syncVars, importerVars, viewVars>>
  \/ (\E w \in Writers, id \in Issued : incrementBlocksSpent(w, id)) /\ UNCHANGED <<relayVars, syncVars, importerVars, viewVars>>
  \/ (\E w \in Writers, id \in Issued : removeTask(w, id)) /\ UNCHANGED <<relayVars, syncVars, importerVars, viewVars>>
  \/ (\E w \in Writers : createList(w, 0)) /\ UNCHANGED <<relayVars, syncVars, importerVars, viewVars>>
  \/ (\E w \in Writers, id \in Issued : removeList(w, id)) /\ UNCHANGED <<relayVars, syncVars, importerVars, viewVars>>
  \/ (\E w \in Writers, n \in {"", "n"} : setTaskNotes(w, 1, n)) /\ UNCHANGED <<relayVars, syncVars, importerVars, viewVars>>
  \/ (\E r \in Replicas, w \in Writers, k \in 1..MaxCalls : Deliver(r, w, k)) /\ UNCHANGED <<relayVars, syncVars, importerVars, viewVars>>

(***************************************************************************)
(* Block screen: BlockView.tsx with useTimer and the UI store, on the      *)
(* device of replica 1; the screen of another device edits replica 2.      *)
(* No external task is selected, so completing a block records nothing in  *)
(* the Completion Relay.                                                   *)
(***************************************************************************)
MetaKeys == {"finishLinePictured", "notInterrupted", "committedToFocus",
             "phoneSeparate", "celebrated"}

emptyMeta == [k \in MetaKeys |-> FALSE]

isMetaComplete == \A k \in MetaKeys : currentMeta[k]

\* updateBlock(id, updates) as a handler calls it: nothing happens when the
\* document has no block of that id.
UpdateIfPresent(w, id, updates) ==
  IF findIndex(toArray(List(replicas[w].store, "blocks", 0)), id) # 0
  THEN updateBlock(w, id, updates)
  ELSE UNCHANGED docVars

\* toggleMeta(index) and the checkboxes of the idle view.
toggleMeta(key) ==
  /\ ~isOnBreak
  /\ timer.state = "idle"
  /\ currentMeta' = [currentMeta EXCEPT ![key] = ~@]
  /\ UNCHANGED <<docVars, timer, timerState, currentBlockId, isOnBreak,
                 currentBreakId, peerBlockId>>

\* handleStart(): createBlock, setCurrentBlockId(block.id), timer.start();
\* the effect copies timer.state to the UI store.
handleStart ==
  /\ ~isOnBreak
  /\ timer.state = "idle"
  /\ isMetaComplete
  /\ createBlock(1, 0)
  /\ currentBlockId' = generated + 1
  /\ timer' = [timer EXCEPT !.state = "running"]
  /\ timerState' = "running"
  /\ UNCHANGED <<currentMeta, isOnBreak, currentBreakId, peerBlockId>>

\* timer.toggle() of a started timer: pause() or resume().
toggle ==
  /\ ~isOnBreak
  /\ timer.state \in {"running", "paused"}
  /\ timer' = [timer EXCEPT !.state = IF @ = "running" THEN "paused"
                                      ELSE "running"]
  /\ timerState' = timer'.state
  /\ UNCHANGED <<docVars, currentBlockId, currentMeta, isOnBreak,
                 currentBreakId, peerBlockId>>

\* The interval callback of useTimer finds no time remaining:
\* setState('completed') and onComplete(), which is handleBlockComplete().
handleBlockComplete ==
  /\ ~isOnBreak
  /\ timer.state = "running"
  /\ timer' = [timer EXCEPT !.state = "completed"]
  /\ timerState' = "completed"
  /\ IF currentBlockId # 0
     THEN \E t \in Times :
            UpdateIfPresent(1, currentBlockId, [completedAt |-> t])
     ELSE UNCHANGED docVars
  /\ UNCHANGED <<currentBlockId, currentMeta, isOnBreak, currentBreakId,
                 peerBlockId>>

\* The body of handleReset and handleMarkInterrupted without the
\* invalidation of the current block.
MutAbandonBlock ==
  /\ UNCHANGED docVars
  /\ currentBlockId' = 0
  /\ timer' = [timer EXCEPT !.state = "idle"]
  /\ timerState' = "idle"
  /\ currentMeta' = emptyMeta
  /\ UNCHANGED <<isOnBreak, currentBreakId, peerBlockId>>

\* The body handleReset and handleMarkInterrupted share: invalidateBlock
\* and setCurrentBlockId(null) if there is a current block, timer.reset(),
\* resetMeta(); the effect copies timer.state to the UI store.
AbandonBlock ==
  /\ IF currentBlockId # 0
     THEN UpdateIfPresent(1, currentBlockId, [isValid |-> FALSE])
     ELSE UNCHANGED docVars
  /\ currentBlockId' = 0
  /\ timer' = [timer EXCEPT !.state = "idle"]
  /\ timerState' = "idle"
  /\ currentMeta' = emptyMeta
  /\ UNCHANGED <<isOnBreak, currentBreakId, peerBlockId>>

\* The reset button of the paused view, and alt+r.
handleReset == ~isOnBreak /\ timer.state = "paused" /\ AbandonBlock

\* The interrupt button of the running view, and alt+i.
handleMarkInterrupted == ~isOnBreak /\ timer.state = "running" /\ AbandonBlock

\* The next-block button of the completed view, and alt+enter.
handleNextBlock ==
  /\ ~isOnBreak
  /\ timer.state = "completed"
  /\ currentBlockId' = 0
  /\ timer' = [timer EXCEPT !.state = "idle"]
  /\ timerState' = "idle"
  /\ currentMeta' = emptyMeta
  /\ UNCHANGED <<docVars, isOnBreak, currentBreakId, peerBlockId>>

\* The break buttons of the completed view, and alt+b.  BreakView replaces
\* BlockView, whose effect therefore no longer copies timer.state; the
\* break screen is not followed further.
handleStartBreak ==
  /\ ~isOnBreak
  /\ timer.state = "completed"
  /\ startBreak(1)
  /\ currentBreakId' = generated + 1
  /\ isOnBreak' = TRUE
  /\ currentBlockId' = 0
  /\ timer' = [timer EXCEPT !.state = "idle"]
  /\ currentMeta' = emptyMeta
  /\ UNCHANGED <<timerState, peerBlockId>>

\* The screen of another device starts a block (its handleStart).
PeerStart ==
  /\ peerBlockId = 0
  /\ createBlock(2, 0)
  /\ peerBlockId' = generated + 1
  /\ UNCHANGED <<timer, timerState, currentBlockId, currentMeta, isOnBreak,
                 currentBreakId>>

\* The screen of another device completes or invalidates its block.
PeerEnd ==
  /\ peerBlockId # 0
  /\ completeBlock(2, peerBlockId) \/ invalidateBlock(2, peerBlockId)
  /\ peerBlockId' = 0
  /\ UNCHANGED <<timer, timerState, currentBlockId, currentMeta, isOnBreak,
                 currentBreakId>>

\* uiStore and useTimer after construction.
InitView ==
  /\ timer = [state |-> "idle"]
  /\ timerState = "idle"
  /\ currentBlockId = 0
  /\ currentMeta = emptyMeta
  /\ isOnBreak = FALSE
  /\ currentBreakId = 0
  /\ peerBlockId = 0

NextView ==
  \/ (\E key \in MetaKeys : toggleMeta(key))
       /\ UNCHANGED <<relayVars, syncVars, importerVars>>
  \/ handleStart /\ UNCHANGED <<relayVars, syncVars, importerVars>>
  \/ toggle /\ UNCHANGED <<relayVars, syncVars, importerVars>>
  \/ handleBlockComplete /\ UNCHANGED <<relayVars, syncVars, importerVars>>
  \/ handleReset /\ UNCHANGED <<relayVars, syncVars, importerVars>>
  \/ handleMarkInterrupted /\ UNCHANGED <<relayVars, syncVars, importerVars>>
  \/ handleNextBlock /\ UNCHANGED <<relayVars, syncVars, importerVars>>
  \/ handleStartBreak /\ UNCHANGED <<relayVars, syncVars, importerVars>>
  \/ PeerStart /\ UNCHANGED <<relayVars, syncVars, importerVars>>
  \/ PeerEnd /\ UNCHANGED <<relayVars, syncVars, importerVars>>
  \/ (\E r \in Writers, w \in Writers, k \in 1..MaxCalls : Deliver(r, w, k))
       /\ UNCHANGED <<relayVars, syncVars, importerVars, viewVars>>


\* The start of the other components while one is explored.
SyncAtRest ==
  /\ storage = "ok"
  /\ firebase = "ok"
  /\ currentUser = NoUser
  /\ idbLog = <<>>
  /\ SyncIdle

ImporterAtRest == ImporterState(Missing, <<>>)

InitR == InitRelay /\ SyncAtRest /\ ImporterAtRest /\ InitDoc /\ InitView
InitS == InitSync /\ InitRelay /\ ImporterAtRest /\ InitDoc /\ InitView
InitI == InitImporter /\ InitRelay /\ SyncAtRest /\ InitDoc /\ InitView
InitD == InitDoc /\ InitRelay /\ SyncAtRest /\ ImporterAtRest /\ InitView

SpecRelay == InitR /\ [][NextRelay]_vars

SpecSync == InitS /\ [][NextSync]_vars

\* Start-up with progress: the effect runs, the persistence layer finishes
\* a replay it is able to make, and the event loop runs the continuation of
\* init() once its promise has resolved.  Nothing is assumed of the user,
\* the network or the other devices.
SpecSyncLive ==
  /\ SpecSync
  /\ WF_syncVars(Mount)
  /\ WF_syncVars(ReplayStep)
  /\ WF_syncVars(PersistenceSynced)
  /\ WF_syncVars(InitAfterLoad)

SpecImporter == InitI /\ [][NextImporter]_vars

SpecDoc == InitD /\ [][NextDoc]_vars

SpecBlockView == InitD /\ [][NextView]_vars

(***************************************************************************)
(* Claims about the Completion Relay (SpecRelay)                           *)
(***************************************************************************)

QueuedUids == {pendingQueue[i].uid : i \in 1..Len(pendingQueue)}

\* C1 (as claimed): at-least-once delivery.  Once the relay has come to rest,
\* every completion passed to recordCompletion() that was neither dropped at
\* the retry ceiling nor removed by clearPendingQueue() has been present in
\* the completion file, also when it was recorded while a run was in flight.
\* The relay is at rest when nothing is in flight and nothing is scheduled:
\* without a further recordCompletion() call no run will ever write again.
C1_AtLeastOnce ==
  (Len(runs) = 0 /\ timers = {} /\ pendingQueue = <<>>) =>
    \A u \in 1..Len(history) :
      u \in dropped \cup cleared \/ KeyOf(history[u]) \in everInFile

\* C2 (as claimed): the completion file holds at most one entry per dedup
\* key (taskId, completedAt).
C2_Dedup ==
  \A i, j \in 1..Len(file) : KeyOf(file[i]) = KeyOf(file[j]) => i = j

\* C3 (as claimed): an item whose runs failed 5 times has left the queue at
\* that fifth failure, and no item with 5 failed runs is ever written.
C3_DroppedAtFifthFailure ==
  /\ \A u \in QueuedUids : failedRuns[u] < MAX_RETRIES
  /\ \A u \in deliveredUids : failedRuns[u] < MAX_RETRIES

\* C3 (amended): an item stays queued through its first MAX_RETRIES = 5
\* failed runs and is dropped at the sixth; a dropped item is not in the
\* queue and is never written to the completion file by a later run.
C3_DroppedAtSixthFailure ==
  /\ \A u \in QueuedUids : failedRuns[u] <= MAX_RETRIES
  /\ \A u \in deliveredUids : failedRuns[u] <= MAX_RETRIES
  /\ \A u \in dropped : /\ failedRuns[u] = MAX_RETRIES + 1
                        /\ u \notin QueuedUids
                        /\ u \notin deliveredUids

\* C3 witness: an item has been dropped at the ceiling while another
\* completion was delivered by a later run.
C3_Witness == dropped # {} /\ deliveredUids # {}

\* C11 (as claimed): an item leaves the pending queue only when its dedup
\* key is in the completion file or when it is dropped at the retry ceiling
\* (or by an explicit clearPendingQueue()): every recorded completion that is
\* no longer queued was dropped, cleared, or has had its key in the file.  A
\* run that succeeds discards no item it did not stage and write.
C11_LeavesOnlyWrittenOrDropped ==
  \A u \in 1..Len(history) :
    u \notin QueuedUids =>
      u \in dropped \cup cleared \/ KeyOf(history[u]) \in everInFile

\* C12: single concurrent run.  At most one processQueue() run is suspended
\* at an await, the flag is set exactly while it is, and a step taken while
\* a run is in flight neither starts a run nor issues a read of its own.
C12_SingleRun ==
  /\ Len(runs) <= 1
  /\ isProcessingQueue <=> Len(runs) = 1

\* C12 witness: recordCompletion() was called while a run was awaiting its
\* write; the run in flight is still the only one.
C12_Witness ==
  /\ Len(runs) = 1
  /\ runs[1].pc = "writing"
  /\ Len(pendingQueue) > Len(runs[1].newCompletions)

\* C13: backoff bound.  A retry timer set by a failed run has a delay in
\* [d, d + JitterMax], d being BASE_RETRY_DELAY_MS * 2^n capped at
\* MAX_RETRY_DELAY_MS and n the least retryCount of the items kept.
C13_BackoffBound ==
  [][\A t \in timers' \ timers :
       LET n == MinRetryCount(pendingQueue')
           exp == BASE_RETRY_DELAY_MS * Pow2(n)
       IN  /\ pendingQueue' # <<>>
           /\ t.delay >= exp \/ t.delay >= MAX_RETRY_DELAY_MS
           /\ t.delay <= exp + JitterMax
           /\ t.delay <= MAX_RETRY_DELAY_MS + JitterMax]_vars

\* C13 witness: a retry is scheduled with the exponential term at its cap,
\* and another run has failed at an uncapped delay before.
C13_Witness ==
  \E t \in timers :
    /\ t.id = retryTimeout
    /\ t.delay >= MAX_RETRY_DELAY_MS
    /\ \E i \in 1..Len(pendingQueue) : pendingQueue[i].retryCount = MAX_RETRIES

\* C21: recordCompletion(taskId, duration) called once, with neither the
\* shared directory nor the file there and no file operation failing:
\* when the run is over the directory and the file exist, the file holds
\* exactly the one entry of the call, and the queue is empty.
C21_FirstCompletionCreatesFile ==
  (Len(history) = 1 /\ failedRuns = <<0>> /\ cleared = {}
   /\ Len(runs) = 0) =>
    /\ dirExists /\ fileExists
    /\ Len(file) = 1
    /\ file[1].taskId = history[1].taskId
    /\ file[1].duration = history[1].duration
    /\ pendingQueue = <<>>

\* C21 witness: the one completion recorded has been written on the first
\* run.
C21_Witness ==
  /\ Len(history) = 1 /\ failedRuns = <<0>> /\ cleared = {}
  /\ Len(runs) = 0
  /\ deliveredUids = {1}
  /\ file = <<history[1]>>

\* C22: at most one retry timer is pending, and retryTimeout is non-null
\* exactly when one is, and is its handle.
C22_OneRetryTimer ==
  /\ Cardinality(timers) <= 1
  /\ retryTimeout # 0 <=> timers # {}
  /\ \A t \in timers : t.id = retryTimeout

\* C22 witness: two runs have failed, the second one started for an item
\* recorded after the first failure, and one timer is pending.
C22_Witness ==
  /\ Cardinality(timers) = 1
  /\ \E i \in 1..Len(pendingQueue) : pendingQueue[i].retryCount >= 2
  /\ \E i \in 1..Len(pendingQueue) : pendingQueue[i].retryCount = 1

\* C25 (as claimed): a run never removes entries from the completion file;
\* every entry in the file before a step is in it after the step, also
\* when the read of the existing file fails.
C25_FileOnlyGrows ==
  [][\A i \in 1..Len(file) : \E j \in 1..Len(file') : file'[j] = file[i]]_vars

\* C30: no stranded items.  When the queue is non-empty a run is in flight
\* or a retry timer is pending.
C30_NoStrandedItems ==
  pendingQueue # <<>> => (Len(runs) > 0 \/ timers # {})

\* C30 witness: items are queued with no run in flight, waiting for the
\* retry timer.
C30_Witness ==
  /\ pendingQueue # <<>>
  /\ Len(runs) = 0
  /\ timers # {}

(***************************************************************************)
(* Claims about start-up and the Remote Reconciler (SpecSync)              *)
(***************************************************************************)

\* C4 (as claimed): echo suppression.  With the reconciler configured, every
\* local mutation has caused exactly one write to the remote record, and no
\* write was caused by an update that came from the remote record.
C4_OnePushPerMutation ==
  firebase = "ok" =>
    /\ \A m \in 1..Len(pushCount) : pushCount[m] = 1
    /\ echoPushes = 0

\* C5 (as claimed): after an identity change the previous snapshot
\* subscription and the previous push listener are gone: at most one
\* subscription is active, exactly one push listener is registered once the
\* reconciler is set up, and every write a push listener issues goes to the
\* partition the reconciler was last set up for.
C5_TornDownCompletely ==
  /\ Cardinality(subs) <= 1
  /\ Len(updateListeners) <= 1
  /\ \A t \in 1..Len(tasks) :
       tasks[t].kind = "push" =>
         tasks[t].part = updateListeners[Len(updateListeners)]

\* C6 (as claimed): partitions are never merged.  A record this client wrote
\* into the partition of the identity then in effect, by the bootstrap or
\* by a push, holds no operation that reached the local document under
\* another partition of this session (by a local edit or from that
\* partition's record).
C6_PartitionsNeverMerged ==
  \A p \in Partitions :
    (remote[p].exists /\ remote[p].origin = ClientId /\ remote[p].issuedUnder = p)
      => \A op \in decodeUpdate(remote[p].fullState) \cup
                   decodeUpdate(remote[p].update) :
           op.owner \in Partitions => op.owner = p

\* C9: the readiness gate.  initLocalPersistence() has resolved only if
\* every entry of the durable change log has been applied to the document;
\* dataLoaded is set, and any step of the Remote Reconciler taken, only
\* after it has resolved.
C9_ReadinessGate ==
  /\ loadResolved =>
       /\ replayed = Len(idbLog)
       /\ \A k \in 1..Len(idbLog) : idbLog[k] \subseteq ydoc.ops
  /\ dataLoaded => loadResolved
  /\ (\/ initPc \in {"awaitSync", "done"}
      \/ Len(updateListeners) > 0
      \/ subs # {}
      \/ tasks # <<>>) => loadResolved

\* C9 witness: a non-empty log has been replayed, the flag is set and the
\* reconciler has fetched the remote record.
C9_Witness ==
  /\ Len(idbLog) > 0
  /\ dataLoaded
  /\ firebase = "ok"
  /\ initPc = "done"

\* C14 (as claimed): a failed remote exchange (a rejected push write, a
\* failed bootstrap, a snapshot listener error) sets the sync state to
\* error and leaves the subscription handle and the push listeners as they
\* were, so that the next local delta is pushed.
C14_FailureSetsError ==
  [][lastFailure' # "none" =>
       /\ syncState' = "error"
       /\ unsubscribe' = unsubscribe
       /\ updateListeners' = updateListeners
       /\ Len(updateListeners') > 0]_vars

\* C16 (as claimed): with the storage medium unavailable, the promise of
\* initLocalPersistence() is still eventually resolved, and the application,
\* unless it is unmounted first, leaves its loading state and starts the
\* reconciler.
C16_LoadResolvesWithoutStorage ==
  (storage = "unavailable" /\ persistPc = "loading")
    ~> (~mounted \/ (loadResolved /\ dataLoaded /\ initPc \in {"awaitSync", "done"}))

\* C23: pull filtering.  When the onSnapshot handler runs for a record
\* whose origin is this client's id (or that does not exist) the document
\* is left as it is; for a record of another origin the update is applied
\* to the document; in both cases no write to the remote record is issued.
C23_PullFiltering ==
  [][\A x \in subs :
       (x.dirty /\ subs' = (subs \ {x}) \cup {[x EXCEPT !.dirty = FALSE]})
       => LET data == remote[x.part]
          IN /\ tasks' = tasks
             /\ remote' = remote
             /\ IF data.exists /\ data.origin # ClientId
                THEN /\ decodeUpdate(data.update)
                          \subseteq ydoc'.ops \cup ydoc'.pending
                     /\ ydoc.ops \subseteq ydoc'.ops
                ELSE ydoc' = ydoc]_vars

\* C23 witness: this client published the initial record, another device
\* then wrote its operation to it, and the snapshot handler has applied it;
\* the push listener is attached and nothing was pushed.
C23_Witness ==
  /\ nAuth = 0 /\ nLocal = 0 /\ nPeer = 1 /\ echoPushes = 0
  /\ tasks = <<>>
  /\ Len(updateListeners) > 0
  /\ remote[ANONYMOUS_DOC_ID].origin = "client-peer"
  /\ \E op \in decodeUpdate(remote[ANONYMOUS_DOC_ID].fullState) :
       op.client = "prev"
  /\ \E op \in ydoc.ops : op.client = "peer"

\* C24 (as claimed): the state is synced only when no bootstrap or push
\* write is in flight.
C24_SyncedOnlyWhenIdle ==
  syncState = "synced" => \A t \in 1..Len(tasks) : ~IsWrite(tasks[t])

\* C29 (as claimed): delivery through the last-write-wins record.  When
\* the snapshot handler has run for the latest content of a record another
\* device wrote, every operation of that device that the record's state
\* contains is in the document once no exchange of this client is in
\* flight, also when an earlier write of the device was overwritten before
\* the handler saw it.
C29_LastWriteWinsDelivers ==
  \A x \in subs :
    (~x.dirty /\ tasks = <<>>
     /\ remote[x.part].exists /\ remote[x.part].origin # ClientId)
    => \A op \in decodeUpdate(remote[x.part].fullState) :
         op.client = "peer" => op \in ydoc.ops

\* The getDoc() exchanges in flight.
FetchesOf(ts) == {i \in 1..Len(ts) : ts[i].kind = "getDoc"}

\* C15: bootstrap.  The start (firebase configured) and every identity
\* change notified to the reconciler issue a fetch of the record of the
\* current partition key.  When a fetch settles without failure and the
\* record is absent, the full local state is written to it as the initial
\* record with origin ClientId; when it is present its fullState is applied
\* to the document and no push is issued for it.
C15_Bootstrap ==
  [][/\ ((~dataLoaded /\ dataLoaded') \/ (nAuth' # nAuth /\ authListener))
        /\ firebase = "ok"
        => /\ Len(tasks') = Len(tasks) + 1
           /\ tasks'[Len(tasks')].kind = "getDoc"
           /\ tasks'[Len(tasks')].part = getSyncDocId(currentUser')
     /\ (Cardinality(FetchesOf(tasks')) < Cardinality(FetchesOf(tasks))
         /\ lastFailure' = "none")
        => \E t \in FetchesOf(tasks) :
             LET part == tasks[t].part
                 fullState == EncodeStateAsUpdate(ydoc)
             IN  IF remote[part].exists
                 THEN /\ tasks' = RemoveAt(tasks, t)
                      /\ decodeUpdate(remote[part].fullState)
                           \subseteq ydoc'.ops \cup ydoc'.pending
                 ELSE /\ Len(tasks') = Len(tasks)
                      /\ \A u \in 1..Len(tasks) : u # t => tasks'[u] = tasks[u]
                      /\ tasks'[t].kind = "bootstrap"
                      /\ tasks'[t].part = part
                      /\ tasks'[t].rec.exists
                      /\ tasks'[t].rec.origin = ClientId
                      /\ decodeUpdate(tasks'[t].rec.fullState) = fullState
                      /\ decodeUpdate(tasks'[t].rec.update) = fullState
                      /\ ydoc' = ydoc]_vars

\* C15 witness: the only fetch found the record another device had written,
\* and its fullState is in the document without a snapshot delivered since
\* and without a write of this client.
C15_Witness ==
  /\ initPc = "done"
  /\ nPeer = 1 /\ nLocal = 0 /\ nAuth = 0
  /\ tasks = <<>>
  /\ subs # {} /\ \A x \in subs : x.dirty
  /\ remote[ANONYMOUS_DOC_ID].origin = "client-peer"
  /\ \E op \in ydoc.ops : op.client = "peer"

(***************************************************************************)
(* Claims about the External Task Importer (SpecImporter)                  *)
(***************************************************************************)

\* C8: when a poll finds the external task file missing, the status becomes
\* offline (not error, not synced) and the list exposed to the UI is still
\* the list that was exposed before the poll; it is not replaced by an
\* empty list.  The refresh() that settled last found the file missing at
\* exists() or, the file having vanished since, at readTextFile().
C8_MissingFileKeepsList ==
  (\/ lastPoll.result = "missing"
   \/ lastPoll.result = "failed" /\ lastPoll.message = NotFoundMessage) =>
    /\ syncStatus = "offline"
    /\ subeteTasks = lastPoll.tasksBefore

\* C17: a poll that fails (read error, invalid format, retries exhausted)
\* leaves the task list and the cache as they were before it, which is as
\* the last successful poll left them; it empties neither.
C17_FailedPollKeepsListAndCache ==
  lastPoll.result = "failed" =>
    /\ subeteTasks = lastPoll.tasksBefore
    /\ cache = lastPoll.cacheBefore

\* C26: one read of the external file makes at most 3 attempts.  It sleeps
\* and tries again only after an error of the lock/busy pattern, first for
\* 500 ms and then for 1000 ms; an error of that pattern is surfaced only by
\* the third attempt, and any other error (invalid format included) is
\* surfaced by the attempt that met it, with no sleep and no further attempt.
C26_BoundedRetry ==
  /\ \A r \in 1..Len(polls) :
       /\ polls[r].attempt + 1 <= 3
       /\ Len(polls[r].slept) <= 2
       /\ \A i \in 1..Len(polls[r].slept) :
            /\ polls[r].slept[i] = (IF i = 1 THEN 500 ELSE 1000)
            /\ \/ Includes(polls[r].retried[i], "lock")
               \/ Includes(polls[r].retried[i], "busy")
       /\ Len(polls[r].slept) =
            (IF polls[r].pc = "sleep" THEN polls[r].attempt + 1
             ELSE polls[r].attempt)
  /\ lastPoll.result = "failed" =>
       /\ lastPoll.attempts <= 3
       /\ lastPoll.slept = SubSeq(<<500, 1000>>, 1, lastPoll.attempts - 1)
       /\ (Includes(lastPoll.message, "lock")
             \/ Includes(lastPoll.message, "busy")) => lastPoll.attempts = 3

\* C26 witness: a read failed with a busy error at its third attempt, having
\* slept 500 ms and 1000 ms.
C26_Witness ==
  /\ lastPoll.result = "failed"
  /\ lastPoll.message = BusyMessage
  /\ lastPoll.attempts = 3
  /\ lastPoll.slept = <<500, 1000>>

\* C27: after a poll that read the external file successfully, the list in
\* memory is the list read, the cache holds that list (also when it is
\* empty), and the consecutive-error counter is 0.  The cache holds a list
\* when loadCachedTasks() returns it.
C27_SuccessReplacesListAndCache ==
  lastPoll.result = "read" =>
    /\ subeteTasks = lastPoll.list
    /\ loadCachedTasks(cache) = lastPoll.list
    /\ consecutiveErrorsRef = 0

\* C17 witness: a poll has failed after an earlier one had loaded and cached
\* a non-empty list.
C17_Witness ==
  /\ lastPoll.result = "failed"
  /\ hasInitialLoadRef
  /\ subeteTasks # <<>>
  /\ cache = <<subeteTasks>>

(***************************************************************************)
(* Claims about the Document Store and its replicas (SpecDoc)              *)
(***************************************************************************)

\* The collections of a replica as its subscribers see them.
View(r) ==
  [type \in ArrayTypes \cup {"tasks", "rightNowLists", "taskNotes"} |-> Snapshot(replicas[r].store, type)]

\* C7: two replicas that have applied the same updates, each in an arrival
\* order that keeps the order of every writer, have identical Blocks,
\* Breaks, Tasks, RightNowLists and TaskNotes: same elements, same field
\* values, same sequence order.
C7_Convergence ==
  \A r1 \in Replicas, r2 \in Replicas :
    applied[r1] = applied[r2] => View(r1) = View(r2)

\* All three replicas have applied the same updates, among them two blocks
\* that two writers created at the same place of the sequence.
C7_Witness ==
  /\ \A r \in Replicas : applied[r] = applied[3]
  /\ \E i, j \in 1..Len(List(replicas[3].store, "blocks", 0)) :
       LET items == List(replicas[3].store, "blocks", 0)
       IN /\ items[i].origin = items[j].origin
          /\ items[i].id[1] # items[j].id[1]
          /\ ~items[i].deleted /\ ~items[j].deleted

\* C10: updateBlock(id, updates) or updateBreak(id, updates) on an existing
\* id is one transaction: the observers are called exactly once, no call
\* shows the sequence without the element, the element keeps its index and
\* the sequence keeps its length.
C10_UpdateIsAtomic ==
  lastOp.call \in {"updateBlock", "updateBreak"} =>
    /\ Len(lastOp.notified) = 1
    /\ \A n \in 1..Len(lastOp.notified) :
         \E i \in 1..Len(lastOp.notified[n]) :
           lastOp.notified[n][i].id = lastOp.id
    /\ Len(lastOp.notified[1]) = Len(lastOp.before)
    /\ lastOp.notified[1][lastOp.index].id = lastOp.id

\* The second element of a sequence has been updated.
C10_Witness ==
  /\ lastOp.call \in {"updateBlock", "updateBreak"}
  /\ lastOp.index = 2
  /\ Len(lastOp.notified) = 1
\* C18 (as claimed): in every state of every replica no two elements of
\* the Blocks sequence, and no two of the Breaks sequence, have the same id,
\* also after the replica has merged concurrent updateBlock calls.
C18_IdsUnique ==
  \A r \in Replicas, type \in ArrayTypes :
    LET arr == View(r)[type]
    IN \A i \in 1..Len(arr), j \in 1..Len(arr) :
         arr[i].id = arr[j].id => i = j

\* C19 (as claimed): isValid = false is terminal.  When a replica has a
\* block of some id with isValid false, after any step (a local operation
\* or the merge of a remote update) every block of that id at the replica
\* has isValid false.
C19_InvalidIsTerminal ==
  [][\A r \in Replicas :
       LET before == toArray(List(replicas[r].store, "blocks", 0))
           after == toArray(List(replicas'[r].store, "blocks", 0))
       IN \A i \in 1..Len(before) :
            ~before[i].isValid =>
              /\ \E j \in 1..Len(after) : after[j].id = before[i].id
              /\ \A j \in 1..Len(after) :
                   after[j].id = before[i].id => ~after[j].isValid]_vars

C28_ResetInvalidatesAndIdles ==
  [][(timer.state \in {"paused", "running"} /\ timer'.state = "idle") =>
       LET after == toArray(List(replicas'[1].store, "blocks", 0))
       IN /\ currentBlockId # 0
          /\ \E j \in 1..Len(after) : after[j].id = currentBlockId
          /\ \A j \in 1..Len(after) :
               after[j].id = currentBlockId => ~after[j].isValid
          /\ currentBlockId' = 0
          /\ \A k \in MetaKeys : ~currentMeta'[k]
          /\ timer'.state = "idle"
          /\ timerState' = "idle"]_vars

\* C28 witness: the device has just invalidated its current block and is
\* idle again, its document holding a block of the other device as well.
C28_Witness ==
  /\ lastOp.call = "updateBlock"
  /\ lastOp.replica = 1
  /\ lastOp.fields = {"isValid"}
  /\ timer.state = "idle"
  /\ currentBlockId = 0
  /\ Len(toArray(List(replicas[1].store, "blocks", 0))) >= 2

====
